---- MODULE Spec2Model ----
(* Model of the tte buffer engine (src/src/buffer.rs): the flat character   *)
(* store, the derived line index, the cursor with its remembered column,   *)
(* the scroll controller, and the save to the file of the Buffer's path;   *)
(* and of the event loop of src/src/main.rs, which keeps its own buffer,   *)
(* lines and cursor_pos and does not use the Buffer.                       *)
(*                                                                         *)
(* Conventions                                                             *)
(*  - Rust indices are 0-based; sequence element i of the source is        *)
(*    element i+1 of the TLA+ sequence.                                    *)
(*  - Option<T>: None is <<>>, Some(v) is <<v>>.                           *)
(*  - A panic (index out of bounds, unreachable!, failed assert!, or an    *)
(*    arithmetic overflow in a build with overflow checks) sets            *)
(*    status = "panic"; the method's other effects are dropped and no      *)
(*    further method runs.                                                 *)
(*  - usize arithmetic wraps modulo 2^64 in a build without overflow       *)
(*    checks. A wrapped value 2^64 - k is written as the integer -k, the   *)
(*    residue nearest zero; sums of such residues are exact modulo 2^64.   *)
EXTENDS Integers, Sequences, FiniteSets, TLC

VARIABLES buffer, overflow_checks, storage, main

vars == <<buffer, overflow_checks, storage, main>>

----------------------------------------------------------------------------
(* Bounds of the model *)

MaxLen == 4
MaxDelta == 2
MaxDim == 2
MaxOrigin == 1
MaxOffset == 1
MaxEditLen == 3
MaxTextLen == 5
MaxFileLen == 2
MaxWrites == 2
MaxMainLen == 3

NL == "\n"
CR == "\r"
Chars == {"a", NL}
FileChars == Chars \cup {CR}

None == <<>>
Some(v) == <<v>>

RECURSIVE SeqsUpTo(_, _)
SeqsUpTo(S, n) ==
    IF n = 0 THEN {<<>>}
    ELSE LET shorter == SeqsUpTo(S, n - 1)
         IN shorter \cup {Append(s, c) : s \in {t \in shorter : Len(t) = n - 1}, c \in S}

----------------------------------------------------------------------------
(* Line *)

Line(s, e) == [start |-> s, end |-> e]

Line_len_overflows(l) == overflow_checks /\ l.end < l.start

Line_len(l) == l.end - l.start + 1

----------------------------------------------------------------------------
(* Buffer::recalculate_lines *)

RECURSIVE scan_newlines(_, _, _, _)
scan_newlines(d, i, previous_begining, acc) ==
    IF i >= Len(d) THEN <<previous_begining, acc>>
    ELSE IF d[i + 1] = NL
         THEN scan_newlines(d, i + 1, i + 1, Append(acc, Line(previous_begining, i)))
         ELSE scan_newlines(d, i + 1, previous_begining, acc)

(* The final span closed at len(data) instead of len(data) - 1 *)
LinesOf_end_at_len(d) ==
    LET r == scan_newlines(d, 0, 0, <<>>)
    IN Append(r[2], Line(r[1], Len(d)))

(* The span after a newline started on the newline itself *)
LinesOf_start_on_newline(d) ==
    LET r == scan_newlines(d, 0, 0, <<>>)
        end == IF Len(d) < 1 THEN 0 ELSE Len(d) - 1
        starts == [j \in 1 .. Len(r[2]) |->
                     Line(IF j = 1 THEN 0 ELSE r[2][j].start - 1, r[2][j].end)]
    IN Append(starts, Line(IF r[1] = 0 THEN 0 ELSE r[1] - 1, end))

LinesOf(d) ==
    LET r == scan_newlines(d, 0, 0, <<>>)
        end == IF Len(d) < 1 THEN 0 ELSE Len(d) - 1
    IN Append(r[2], Line(r[1], end))

recalculate_lines(b) == [b EXCEPT !.lines = LinesOf(b.data)]

Panic(b) == [b EXCEPT !.status = "panic"]

----------------------------------------------------------------------------
(* Buffer::new and Buffer::from_file *)

new(x, y, width, height) ==
    recalculate_lines(
        [data |-> <<>>, lines |-> <<>>, x |-> x, y |-> y,
         width |-> width, height |-> height,
         offset_y |-> 0, offset_x |-> 0, cursor_pos |-> 0,
         file_path |-> None, previous_offset |-> None, status |-> "ok"])

StripCR(bytes) == SelectSeq(bytes, LAMBDA c : c # CR)

(* kind: what the path names. "file": a readable file holding bytes;       *)
(* "unreadable": a file whose read fails; "dir": a directory; "missing":   *)
(* anything else.                                                          *)
from_file_struct(kind, bytes, x, y, width, height) ==
    LET loaded == CASE kind = "file" -> <<StripCR(bytes), Some("path")>>
                    [] kind = "unreadable" -> <<(<<>>), Some("path")>>
                    [] kind = "dir" -> <<(<<>>), None>>
                    [] OTHER -> <<(<<>>), Some("path")>>
    IN [data |-> loaded[1], lines |-> <<>>, x |-> x, y |-> y,
        width |-> width, height |-> height,
        offset_y |-> 0, offset_x |-> 0, cursor_pos |-> 0,
        file_path |-> loaded[2], previous_offset |-> None, status |-> "ok"]

from_file(kind, bytes, x, y, width, height) ==
    recalculate_lines(from_file_struct(kind, bytes, x, y, width, height))

move_to(b, x, y) == [b EXCEPT !.x = x, !.y = y]

resize(b, w, h) == [b EXCEPT !.width = w, !.height = h]

----------------------------------------------------------------------------
(* Buffer::cursor_xy and Buffer::current_line *)

NotFound == -1

(* The loop shared by cursor_xy and current_line: the index of the first   *)
(* line with start <= p <= end, counting from line i; NotFound when the    *)
(* loop runs off the end.                                                  *)
RECURSIVE first_containing(_, _, _)
first_containing(ls, p, i) ==
    IF i >= Len(ls) THEN NotFound
    ELSE IF ls[i + 1].start <= p /\ ls[i + 1].end >= p THEN i
         ELSE first_containing(ls, p, i + 1)

(* cursor_xy with the column counted from one before the line start *)
cursor_xy_column_off_by_one(b) ==
    LET i == first_containing(b.lines, b.cursor_pos, 0)
    IN IF i # NotFound
       THEN <<b.cursor_pos - b.lines[i + 1].start - 1 - b.offset_x + b.x,
              i - b.offset_y + b.y>>
       ELSE LET last_line == b.lines[Len(b.lines)]
            IN <<last_line.end - last_line.start + 1 + b.x,
                 Len(b.lines) - 1 - b.offset_y + b.y>>

cursor_xy(b) ==
    LET i == first_containing(b.lines, b.cursor_pos, 0)
    IN IF i # NotFound
       THEN <<b.cursor_pos - b.lines[i + 1].start - b.offset_x + b.x,
              i - b.offset_y + b.y>>
       ELSE LET last_line == b.lines[Len(b.lines)]
            IN <<last_line.end - last_line.start + 1 + b.x,
                 Len(b.lines) - 1 - b.offset_y + b.y>>

(* NotFound stands for reaching unreachable!() *)
current_line(b) == first_containing(b.lines, b.cursor_pos, 0)

----------------------------------------------------------------------------
(* Horizontal moves *)

(* move_cursor_right with the bound test off by one *)
move_cursor_right_past_end(b, dx) ==
    [b EXCEPT !.cursor_pos = IF b.cursor_pos + dx <= Len(b.data) + 1
                             THEN b.cursor_pos + dx ELSE b.cursor_pos,
              !.previous_offset = None]

move_cursor_right(b, dx) ==
    [b EXCEPT !.cursor_pos = IF b.cursor_pos + dx <= Len(b.data)
                             THEN b.cursor_pos + dx ELSE b.cursor_pos,
              !.previous_offset = None]

(* move_cursor_left that clears the remembered column only when it moves *)
move_cursor_left_keeps_sticky(b, dx) ==
    IF b.cursor_pos >= dx
    THEN [b EXCEPT !.cursor_pos = b.cursor_pos - dx, !.previous_offset = None]
    ELSE b

move_cursor_left(b, dx) ==
    [b EXCEPT !.cursor_pos = IF b.cursor_pos >= dx
                             THEN b.cursor_pos - dx ELSE b.cursor_pos,
              !.previous_offset = None]

----------------------------------------------------------------------------
(* Vertical moves *)

(* desired_column that counts the columns of the cursor's line from 1 *)
desired_column_from_one(b, line) ==
    IF b.previous_offset # None THEN b.previous_offset[1]
    ELSE b.cursor_pos - line.start + 1

(* The column the move aims for: the remembered one, else the cursor's     *)
(* column in its own line.                                                 *)
desired_column(b, line) ==
    IF b.previous_offset # None THEN b.previous_offset[1]
    ELSE b.cursor_pos - line.start

(* The tail of both vertical moves: put the cursor on the target line at   *)
(* x_offset, or on the line's last character when x_offset does not fit.   *)
(* line.len() is evaluated first; with overflow checks it panics on a      *)
(* span whose end is below its start, and so does line.len() - 1 on a      *)
(* length of 0. Without them line.len() - 1 wraps and the sum              *)
(* line.start + x_offset wraps back.                                       *)
land_on(b, line, x_offset) ==
    IF Line_len_overflows(line) THEN Panic(b)
    ELSE IF x_offset >= Line_len(line)
         THEN IF overflow_checks /\ Line_len(line) < 1 THEN Panic(b)
              ELSE [b EXCEPT !.previous_offset = Some(x_offset),
                             !.cursor_pos = line.start + (Line_len(line) - 1)]
         ELSE [b EXCEPT !.cursor_pos = line.start + x_offset]

move_cursor_up(b, dy) ==
    LET cur == current_line(b)
    IN IF cur = NotFound THEN Panic(b)
       ELSE IF cur >= dy
            THEN land_on(b, b.lines[cur - dy + 1], desired_column(b, b.lines[cur + 1]))
            ELSE b

move_cursor_down(b, dy) ==
    LET cur == current_line(b)
    IN IF cur = NotFound THEN Panic(b)
       ELSE IF cur + dy < Len(b.lines)
            THEN land_on(b, b.lines[cur + dy + 1], desired_column(b, b.lines[cur + 1]))
            ELSE b

----------------------------------------------------------------------------
(* Buffer::scroll *)

(* The cursor's coordinates relative to the viewport origin *)
relative_xy(b) == <<cursor_xy(b)[1] - b.x, cursor_xy(b)[2] - b.y>>

scroll_y(b, y) ==
    IF y < 0
    THEN IF b.offset_y >= -y THEN [b EXCEPT !.offset_y = b.offset_y - (-y)]
         ELSE Panic(b)
    ELSE IF y >= b.height THEN [b EXCEPT !.offset_y = b.offset_y + (y - b.height + 1)]
         ELSE b

scroll_x(b, x) ==
    IF x < 0
    THEN IF overflow_checks /\ b.offset_x < -x THEN Panic(b)
         ELSE [b EXCEPT !.offset_x = b.offset_x - (-x)]
    ELSE IF x >= b.width THEN [b EXCEPT !.offset_x = b.offset_x + (x - b.width + 1)]
         ELSE b

scroll(b) ==
    LET rel == relative_xy(b)
        after_y == scroll_y(b, rel[2])
    IN IF after_y.status = "panic" THEN Panic(b) ELSE scroll_x(after_y, rel[1])

----------------------------------------------------------------------------
(* Edits *)

InsertAt(d, i, ch) == SubSeq(d, 1, i) \o <<ch>> \o SubSeq(d, i + 1, Len(d))

RemoveAt(d, i) == SubSeq(d, 1, i) \o SubSeq(d, i + 2, Len(d))

insert_ch(b, ch) ==
    IF b.cursor_pos > Len(b.data) THEN Panic(b)
    ELSE [b EXCEPT !.data = InsertAt(b.data, b.cursor_pos, ch),
                   !.cursor_pos = b.cursor_pos + 1]

(* backspace that removes before it steps back *)
backspace_removes_at_cursor(b) ==
    IF b.cursor_pos < 1 \/ b.cursor_pos >= Len(b.data) THEN Panic(b)
    ELSE [b EXCEPT !.cursor_pos = b.cursor_pos - 1,
                   !.data = RemoveAt(b.data, b.cursor_pos)]

(* cursor_pos - 1 at 0 either panics (overflow checks) or wraps to the     *)
(* largest usize, where Vec::remove panics.                                *)
backspace(b) ==
    IF b.cursor_pos < 1 \/ b.cursor_pos - 1 >= Len(b.data) THEN Panic(b)
    ELSE [b EXCEPT !.cursor_pos = b.cursor_pos - 1,
                   !.data = RemoveAt(b.data, b.cursor_pos - 1)]

delete(b) ==
    IF b.cursor_pos >= Len(b.data) THEN Panic(b)
    ELSE [b EXCEPT !.data = RemoveAt(b.data, b.cursor_pos)]

----------------------------------------------------------------------------
(* Buffer::save and the file at the Buffer's path *)

(* A character above the ASCII range: U+00E9, which from_file reads from   *)
(* the byte 233 (b as char).                                               *)
E_ACUTE == "e_acute"

(* The code point of a character *)
Code(ch) ==
    CASE ch = "a" -> 97
      [] ch = NL -> 10
      [] ch = CR -> 13
      [] ch = E_ACUTE -> 233
      [] ch = "A" -> 65

(* The bytes of a file that from_file reads as the characters text: b as   *)
(* char keeps the byte's value as the code point.                          *)
BytesReadAs(text) == [i \in 1 .. Len(text) |-> Code(text[i])]

(* The String the characters collect into, as the bytes fs::write gets:    *)
(* UTF-8, one byte below U+0080 and two bytes below U+0800.                *)
Utf8Char(c) == IF c < 128 THEN <<c>> ELSE <<192 + (c \div 64), 128 + (c % 64)>>

RECURSIVE Utf8(_)
Utf8(d) == IF d = <<>> THEN <<>> ELSE Utf8Char(Code(Head(d))) \o Utf8(Tail(d))

(* The file at the path: its bytes, None when there is no such file, and   *)
(* the number of writes made to it.                                        *)
NoStorage == [contents |-> None, writes |-> 0]

(* fs::write(path, bytes): the file is created or truncated and the bytes  *)
(* are then written to it. opens: whether the file can be opened for       *)
(* writing; accepted: how many bytes the file takes before a write fails.  *)
(* A failed open leaves the file as it was; a write that fails after the   *)
(* open leaves the bytes that went in before it, none for accepted = 0.    *)
fs_write(st, bytes, opens, accepted) ==
    IF ~opens THEN [ok |-> FALSE, file |-> st]
    ELSE IF accepted >= Len(bytes)
         THEN [ok |-> TRUE,
               file |-> [contents |-> Some(bytes), writes |-> st.writes + 1]]
         ELSE [ok |-> FALSE,
               file |-> [contents |-> Some(SubSeq(bytes, 1, accepted)),
                         writes |-> st.writes]]

(* save that does not look at file_path *)
save_without_path_test(b, st, opens, accepted) ==
    LET written == fs_write(st, Utf8(b.data), opens, accepted)
    IN <<IF written.ok THEN b ELSE Panic(b), written.file>>

(* The Buffer and the file after save(). A fs::write that fails panics in  *)
(* expect().                                                               *)
save(b, st, opens, accepted) ==
    IF b.file_path # None
    THEN LET written == fs_write(st, Utf8(b.data), opens, accepted)
         IN <<IF written.ok THEN b ELSE Panic(b), written.file>>
    ELSE <<b, st>>

----------------------------------------------------------------------------
(* src/src/main.rs: the locals of main (buffer, lines, cursor_pos,         *)
(* filename) as the record main; a span of lines is the pair               *)
(* <<begin, end>>.                                                         *)

(* The process has no such object *)
Absent == [status |-> "absent"]

MainPanic(m) == [m EXCEPT !.status = "panic"]

RECURSIVE main_scan_newlines(_, _, _, _)
main_scan_newlines(buf, i, previous_begining, acc) ==
    IF i >= Len(buf) THEN <<previous_begining, acc>>
    ELSE IF buf[i + 1] = NL
         THEN main_scan_newlines(buf, i + 1, i + 1, Append(acc, <<previous_begining, i>>))
         ELSE main_scan_newlines(buf, i + 1, previous_begining, acc)

(* recalculate_lines that appends to the old spans *)
main_recalculate_lines_without_clear(buf, lines) ==
    LET r == main_scan_newlines(buf, 0, 0, lines)
    IN Append(r[2], <<r[1], Len(buf)>>)

(* recalculate_lines of main.rs: lines.clear(), a span per newline, and a  *)
(* final span that ends at buffer.len()                                    *)
main_recalculate_lines(buf, lines) ==
    LET cleared == SubSeq(lines, 1, 0)
        r == main_scan_newlines(buf, 0, 0, cleared)
    IN Append(r[2], <<r[1], Len(buf)>>)

(* The loop of get_cursor_xy: the last span that contains cursor_pos wins *)
RECURSIVE xy_of_containing(_, _, _, _)
xy_of_containing(lines, cursor_pos, i, xy) ==
    IF i >= Len(lines) THEN xy
    ELSE IF lines[i + 1][1] <= cursor_pos /\ lines[i + 1][2] >= cursor_pos
         THEN xy_of_containing(lines, cursor_pos, i + 1, <<cursor_pos - lines[i + 1][1], i>>)
         ELSE xy_of_containing(lines, cursor_pos, i + 1, xy)

get_cursor_xy(cursor_pos, lines) ==
    IF lines # <<>>
    THEN LET end == lines[Len(lines)][2]
         IN IF cursor_pos > end THEN <<cursor_pos - end - 1, Len(lines)>>
            ELSE xy_of_containing(lines, cursor_pos, 0, <<0, 0>>)
    ELSE <<cursor_pos, 0>>

is_cursor_at_last_line(cursor_pos, lines) ==
    IF lines # <<>> THEN cursor_pos > lines[Len(lines)][2] ELSE TRUE

(* char::to_ascii_uppercase on the characters of the model *)
to_ascii_uppercase(c) == IF c = "a" THEN "A" ELSE c

(* Vec::insert panics on an index above the length *)
key_char(m, c) ==
    IF m.cursor_pos > Len(m.buffer) THEN MainPanic(m)
    ELSE [m EXCEPT !.buffer = InsertAt(m.buffer, m.cursor_pos, c),
                   !.cursor_pos = m.cursor_pos + 1]

key_shift_char(m, c) == key_char(m, to_ascii_uppercase(c))

key_enter(m) == key_char(m, NL)

(* Backspace without the test of cursor_pos: cursor_pos - 1 underflows at  *)
(* 0, and Vec::remove panics on the wrapped index                          *)
key_backspace_unguarded(m) ==
    IF m.cursor_pos < 1 \/ m.cursor_pos - 1 >= Len(m.buffer) THEN MainPanic(m)
    ELSE [m EXCEPT !.buffer = RemoveAt(m.buffer, m.cursor_pos - 1),
                   !.cursor_pos = m.cursor_pos - 1]

(* Vec::remove panics on an index that is not below the length *)
key_backspace(m) ==
    IF m.cursor_pos > 0
    THEN IF m.cursor_pos - 1 >= Len(m.buffer) THEN MainPanic(m)
         ELSE [m EXCEPT !.buffer = RemoveAt(m.buffer, m.cursor_pos - 1),
                        !.cursor_pos = m.cursor_pos - 1]
    ELSE m

key_delete(m) ==
    IF Len(m.buffer) > m.cursor_pos
    THEN [m EXCEPT !.buffer = RemoveAt(m.buffer, m.cursor_pos)]
    ELSE m

key_left(m) == IF m.cursor_pos > 0 THEN [m EXCEPT !.cursor_pos = m.cursor_pos - 1] ELSE m

key_right(m) ==
    IF m.cursor_pos < Len(m.buffer) THEN [m EXCEPT !.cursor_pos = m.cursor_pos + 1] ELSE m

(* The body shared by Up and Down once cursor_y is the target: nothing     *)
(* when lines.get(cursor_y) is None. line.1 - line.0 panics under          *)
(* overflow checks when it is negative and otherwise wraps to a value      *)
(* above every cursor_x.                                                   *)
land_on_row(m, cursor_x, cursor_y) ==
    IF cursor_y < Len(m.lines)
    THEN LET line == m.lines[cursor_y + 1]
             width == line[2] - line[1]
         IN IF width < 0
            THEN IF overflow_checks THEN MainPanic(m)
                 ELSE [m EXCEPT !.cursor_pos = line[1] + cursor_x]
            ELSE [m EXCEPT !.cursor_pos =
                               line[1] + (IF width < cursor_x THEN width ELSE cursor_x)]
    ELSE m

key_up(m) ==
    LET xy == get_cursor_xy(m.cursor_pos, m.lines)
    IN IF xy[2] > 0 THEN land_on_row(m, xy[1], xy[2] - 1) ELSE m

key_down(m) ==
    LET xy == get_cursor_xy(m.cursor_pos, m.lines)
    IN IF ~is_cursor_at_last_line(m.cursor_pos, m.lines)
       THEN land_on_row(m, xy[1], xy[2] + 1)
       ELSE m

(* The bytes Ctrl-S writes: every char narrowed to u8 *)
as_u8(c) == Code(c) % 256

(* The locals and the file after Ctrl-S. A fs::write that fails panics in  *)
(* unwrap().                                                               *)
key_ctrl_s(m, st, opens, accepted) ==
    IF Len(m.filename) > 0
    THEN LET written == fs_write(st, [i \in 1 .. Len(m.buffer) |-> as_u8(m.buffer[i])],
                                 opens, accepted)
         IN <<IF written.ok THEN m ELSE MainPanic(m), written.file>>
    ELSE <<m, st>>

(* The end of an iteration of the loop: the line index is recomputed       *)
loop_tail(m) ==
    IF m.status = "panic" THEN m
    ELSE [m EXCEPT !.lines = main_recalculate_lines(m.buffer, m.lines)]

(* main up to the loop. arg: "none" without a file name, "file" with the   *)
(* name of a readable file holding text, "missing" with a name that        *)
(* cannot be read.                                                         *)
main_start(arg, text) ==
    LET loaded == IF arg = "file" THEN text ELSE <<>>
    IN [buffer |-> loaded,
        lines |-> main_recalculate_lines(loaded, <<>>),
        cursor_pos |-> 0,
        filename |-> IF arg = "none" THEN "" ELSE "path",
        status |-> "ok"]

----------------------------------------------------------------------------
(* The editing session: one Buffer, built empty and driven through its     *)
(* public methods one call at a time, in any order. An edit does not       *)
(* rebuild the line index: until recalculate_lines is called the index is  *)
(* that of the data before the edit.                                       *)

Dims == {1, MaxDim}
Origins == {0, MaxOrigin}
(* The viewport origins tried: the corner, and off it on both axes *)
OriginPairs == {<<0, 0>>, <<MaxOrigin, MaxOrigin>>}
Deltas == 0 .. MaxDelta
PathKinds == {"file", "unreadable", "dir", "missing"}

Running == buffer.status = "ok"

Init ==
    /\ overflow_checks \in BOOLEAN
    /\ storage = NoStorage
    /\ main = Absent
    /\ \E o \in OriginPairs, w \in Dims, h \in Dims :
          buffer = new(o[1], o[2], w, h)

Step(b) ==
    /\ buffer' = b
    /\ UNCHANGED <<overflow_checks, storage, main>>

MoveTo ==
    /\ Running
    /\ \E o \in OriginPairs : Step(move_to(buffer, o[1], o[2]))

Resize ==
    /\ Running
    /\ \E w \in Dims, h \in Dims : Step(resize(buffer, w, h))

MoveCursorRight ==
    /\ Running
    /\ \E dx \in Deltas : Step(move_cursor_right(buffer, dx))

MoveCursorLeft ==
    /\ Running
    /\ \E dx \in Deltas : Step(move_cursor_left(buffer, dx))

MoveCursorUp ==
    /\ Running
    /\ \E dy \in Deltas : Step(move_cursor_up(buffer, dy))

MoveCursorDown ==
    /\ Running
    /\ \E dy \in Deltas : Step(move_cursor_down(buffer, dy))

Scroll ==
    /\ Running
    /\ scroll(buffer).offset_x <= MaxOffset
    /\ scroll(buffer).offset_y <= MaxOffset
    /\ Step(scroll(buffer))

InsertCh ==
    /\ Running
    /\ Len(buffer.data) < MaxEditLen
    /\ \E ch \in Chars : Step(insert_ch(buffer, ch))

Backspace ==
    /\ Running
    /\ Step(backspace(buffer))

Delete ==
    /\ Running
    /\ Step(delete(buffer))

RecalculateLines ==
    /\ Running
    /\ Step(recalculate_lines(buffer))

Next ==
    \/ MoveTo
    \/ Resize
    \/ MoveCursorRight
    \/ MoveCursorLeft
    \/ MoveCursorUp
    \/ MoveCursorDown
    \/ Scroll
    \/ InsertCh
    \/ Backspace
    \/ Delete
    \/ RecalculateLines

Spec == Init /\ [][Next]_vars

----------------------------------------------------------------------------
(* Loading and rebuilding: from_file on any kind of path, then edits and   *)
(* recalculate_lines. Used for the properties of the line index as a       *)
(* function of the data.                                                   *)

InitLoad ==
    /\ overflow_checks \in BOOLEAN
    /\ storage = NoStorage
    /\ main = Absent
    /\ \E x \in Origins, y \in Origins, w \in Dims, h \in Dims :
          \E kind \in PathKinds, bytes \in SeqsUpTo(FileChars, MaxLen) :
             buffer = from_file(kind, bytes, x, y, w, h)

NextLoad ==
    \/ InsertCh
    \/ Backspace
    \/ Delete
    \/ RecalculateLines

SpecLoad == InitLoad /\ [][NextLoad]_vars

----------------------------------------------------------------------------
(* Moving about a loaded text: from_file on a readable file, then cursor   *)
(* moves only. The texts are all those over Chars up to MaxTextLen and the *)
(* text of the specification's scenario 3.                                 *)

Scenario3Text == <<"a", "b", "c", NL, "d">>

Texts == SeqsUpTo(Chars, MaxTextLen) \cup {Scenario3Text}

InitMoves ==
    /\ overflow_checks \in BOOLEAN
    /\ storage = NoStorage
    /\ main = Absent
    /\ \E text \in Texts : buffer = from_file("file", text, 0, 0, MaxDim, MaxDim)

NextMoves ==
    \/ MoveCursorRight
    \/ MoveCursorLeft
    \/ MoveCursorUp
    \/ MoveCursorDown

SpecMoves == InitMoves /\ [][NextMoves]_vars

----------------------------------------------------------------------------
(* Editing and saving a loaded file: from_file on any kind of path, then   *)
(* edits, horizontal moves and save().                                     *)

SaveFileChars == FileChars \cup {E_ACUTE}

(* What the path holds before the session: the bytes of the file, or       *)
(* nothing when the path names a directory or no file.                     *)
StorageAtLoad(kind, text) ==
    [contents |-> IF kind \in {"file", "unreadable"} THEN Some(BytesReadAs(text))
                  ELSE None,
     writes |-> 0]

InitSave ==
    /\ overflow_checks \in BOOLEAN
    /\ main = Absent
    /\ \E kind \in PathKinds, text \in SeqsUpTo(SaveFileChars, MaxFileLen) :
          /\ buffer = from_file(kind, text, 0, 0, MaxDim, MaxDim)
          /\ storage = StorageAtLoad(kind, text)

Save ==
    /\ Running
    /\ storage.writes < MaxWrites
    /\ \E opens \in BOOLEAN, accepted \in 0 .. Len(Utf8(buffer.data)) :
          /\ buffer' = save(buffer, storage, opens, accepted)[1]
          /\ storage' = save(buffer, storage, opens, accepted)[2]
    /\ UNCHANGED <<overflow_checks, main>>

NextSave ==
    \/ InsertCh
    \/ Backspace
    \/ Delete
    \/ MoveCursorLeft
    \/ MoveCursorRight
    \/ Save

SpecSave == InitSave /\ [][NextSave]_vars

----------------------------------------------------------------------------
(* The event loop of main.rs: one key event per step, handled and followed *)
(* by the recomputation of lines at the end of the iteration.              *)

TypedChars == {"a"}
Args == {"none", "file", "missing"}

MainRunning == main.status = "ok"

InitMain ==
    /\ overflow_checks \in BOOLEAN
    /\ buffer = Absent
    /\ \E arg \in Args, text \in SeqsUpTo(Chars, MaxFileLen) :
          /\ main = main_start(arg, text)
          /\ storage = StorageAtLoad(arg, text)

MainStep(m) ==
    /\ main' = loop_tail(m)
    /\ UNCHANGED <<buffer, overflow_checks, storage>>

KeyChar ==
    /\ MainRunning
    /\ Len(main.buffer) < MaxMainLen
    /\ \E c \in TypedChars : MainStep(key_char(main, c))

KeyShiftChar ==
    /\ MainRunning
    /\ Len(main.buffer) < MaxMainLen
    /\ \E c \in TypedChars : MainStep(key_shift_char(main, c))

KeyEnter ==
    /\ MainRunning
    /\ Len(main.buffer) < MaxMainLen
    /\ MainStep(key_enter(main))

KeyBackspace ==
    /\ MainRunning
    /\ MainStep(key_backspace(main))

KeyDelete ==
    /\ MainRunning
    /\ MainStep(key_delete(main))

KeyLeft ==
    /\ MainRunning
    /\ MainStep(key_left(main))

KeyRight ==
    /\ MainRunning
    /\ MainStep(key_right(main))

KeyUp ==
    /\ MainRunning
    /\ MainStep(key_up(main))

KeyDown ==
    /\ MainRunning
    /\ MainStep(key_down(main))

KeyCtrlS ==
    /\ MainRunning
    /\ storage.writes < MaxWrites
    /\ \E opens \in BOOLEAN, accepted \in 0 .. Len(main.buffer) :
          /\ main' = loop_tail(key_ctrl_s(main, storage, opens, accepted)[1])
          /\ storage' = key_ctrl_s(main, storage, opens, accepted)[2]
    /\ UNCHANGED <<buffer, overflow_checks>>

(* Ctrl-Q, or a failed read of the event: the loop is left *)
Quit ==
    /\ MainRunning
    /\ main' = [main EXCEPT !.status = "exited"]
    /\ UNCHANGED <<buffer, overflow_checks, storage>>

NextMain ==
    \/ KeyChar
    \/ KeyShiftChar
    \/ KeyEnter
    \/ KeyBackspace
    \/ KeyDelete
    \/ KeyLeft
    \/ KeyRight
    \/ KeyUp
    \/ KeyDown
    \/ KeyCtrlS
    \/ Quit

SpecMain == InitMain /\ [][NextMain]_vars

----------------------------------------------------------------------------
(* Properties of the cursor and the scroll controller *)

CursorInData(b) == 0 <= b.cursor_pos /\ b.cursor_pos <= Len(b.data)

(* The line index is that of the data: recalculate_lines has run since the *)
(* last edit that changed it.                                              *)
LinesCurrent(b) == b.lines = LinesOf(b.data)

(* C1: over any sequence of cursor moves (left, right, up, down, any       *)
(* delta) on a Buffer whose line index is current, cursor_pos stays        *)
(* within [0, len(data)].                                                  *)
C1_CursorStaysInData ==
    (Running /\ LinesCurrent(buffer) /\ CursorInData(buffer)) =>
        \A d \in Deltas :
            /\ CursorInData(move_cursor_left(buffer, d))
            /\ CursorInData(move_cursor_right(buffer, d))
            /\ CursorInData(move_cursor_up(buffer, d))
            /\ CursorInData(move_cursor_down(buffer, d))

(* A vertical move has clamped the column (nothing else sets the           *)
(* remembered column), the cursor being inside the data, and a further     *)
(* move to the right reaches the end of the data.                          *)
C1_Witness ==
    /\ Running
    /\ LinesCurrent(buffer)
    /\ buffer.previous_offset # None
    /\ buffer.cursor_pos > 0
    /\ buffer.cursor_pos < Len(buffer.data)
    /\ \E d \in Deltas : move_cursor_right(buffer, d).cursor_pos = Len(buffer.data)

Contains(l, p) == l.start <= p /\ p <= l.end

(* C2: for every legal cursor position, the end of the buffer included,    *)
(* current_line returns the unique index of the line that contains the    *)
(* cursor, the end of the buffer resolves to the last line, and the        *)
(* unreachable!() is never reached.                                        *)
C2_CurrentLineContains ==
    (Running /\ LinesCurrent(buffer) /\ CursorInData(buffer)) =>
        LET i == current_line(buffer)
        IN /\ i # NotFound
           /\ Contains(buffer.lines[i + 1], buffer.cursor_pos)
           /\ \A j \in 0 .. Len(buffer.lines) - 1 :
                 Contains(buffer.lines[j + 1], buffer.cursor_pos) => j = i
           /\ buffer.cursor_pos = Len(buffer.data) => i = Len(buffer.lines) - 1

InViewport(b, xy) ==
    /\ b.x <= xy[1] /\ xy[1] < b.x + b.width
    /\ b.y <= xy[2] /\ xy[2] < b.y + b.height

(* C3: after scroll() returns, the cursor's screen coordinates lie within  *)
(* [x, x + width) and [y, y + height), for every cursor position and every *)
(* prior offset, whenever width >= 1 and height >= 1.                      *)
C3_ScrollContainsCursor ==
    (/\ Running
     /\ LinesCurrent(buffer)
     /\ CursorInData(buffer)
     /\ buffer.width >= 1 /\ buffer.height >= 1
     /\ scroll(buffer).status = "ok")
        => InViewport(scroll(buffer), cursor_xy(scroll(buffer)))

(* C4: in every reachable state, and so in every state reached by moves,   *)
(* edits followed by recalculate_lines, resizes and scroll() calls,        *)
(* scroll() subtracts no more than the current offset: the assertion       *)
(* offset_y >= dy holds, offset_x - dx does not underflow, and neither     *)
(* offset is ever below 0.                                                 *)
C4_ScrollNeverUnderflows ==
    /\ buffer.offset_x >= 0
    /\ buffer.offset_y >= 0
    /\ Running =>
          /\ relative_xy(buffer)[2] < 0 => buffer.offset_y >= -relative_xy(buffer)[2]
          /\ relative_xy(buffer)[1] < 0 => buffer.offset_x >= -relative_xy(buffer)[1]
          /\ scroll(buffer).status = "ok"
          /\ scroll(buffer).offset_x >= 0
          /\ scroll(buffer).offset_y >= 0

(* The cursor is above and left of the viewport, and scroll() brings both  *)
(* offsets back by the distance.                                           *)
C4_Witness ==
    /\ Running
    /\ LinesCurrent(buffer)
    /\ relative_xy(buffer)[1] < 0
    /\ relative_xy(buffer)[2] < 0
    /\ scroll(buffer).offset_x = buffer.offset_x + relative_xy(buffer)[1]
    /\ scroll(buffer).offset_y = buffer.offset_y + relative_xy(buffer)[2]

----------------------------------------------------------------------------
(* Properties of the sticky column and of the edits *)

(* The line the cursor is on: the one that contains it, the last line for  *)
(* the end of the buffer.                                                  *)
LineOfCursor(b) ==
    IF current_line(b) # NotFound THEN current_line(b) ELSE Len(b.lines) - 1

(* C5: sticky column round trip. Moving down one line and up one line, or  *)
(* up and then down, when neither move is a boundary no-op, restores the   *)
(* original cursor_pos, also through a shorter intermediate line.          *)
C5_StickyRoundTrip ==
    (Running /\ LinesCurrent(buffer) /\ CursorInData(buffer)) =>
        LET cur == LineOfCursor(buffer)
            down_up == move_cursor_up(move_cursor_down(buffer, 1), 1)
            up_down == move_cursor_down(move_cursor_up(buffer, 1), 1)
        IN /\ cur + 1 < Len(buffer.lines) =>
                 down_up.status = "ok" /\ down_up.cursor_pos = buffer.cursor_pos
           /\ cur >= 1 =>
                 up_down.status = "ok" /\ up_down.cursor_pos = buffer.cursor_pos

(* C6: edit round trip. From any state with 0 <= cursor_pos <= len(data),  *)
(* insert_ch(c) puts c at index cursor_pos and advances cursor_pos by 1;   *)
(* backspace() right after it, or move_cursor_left(1) and then delete(),   *)
(* gives back the original data and the original cursor_pos.               *)
C6_EditRoundTrip ==
    (Running /\ CursorInData(buffer)) =>
        \A c \in Chars :
            LET p == buffer.cursor_pos
                ins == insert_ch(buffer, c)
                bs == backspace(ins)
                del == delete(move_cursor_left(ins, 1))
            IN /\ ins.status = "ok"
               /\ Len(ins.data) = Len(buffer.data) + 1
               /\ ins.data[p + 1] = c
               /\ \A k \in 1 .. p : ins.data[k] = buffer.data[k]
               /\ \A k \in p + 1 .. Len(buffer.data) : ins.data[k + 1] = buffer.data[k]
               /\ ins.cursor_pos = p + 1
               /\ bs.status = "ok" /\ bs.data = buffer.data /\ bs.cursor_pos = p
               /\ del.status = "ok" /\ del.data = buffer.data /\ del.cursor_pos = p

(* Inserts have built a text, the cursor is in the middle of it between    *)
(* two different characters, and insert_ch followed by backspace there     *)
(* changes the data and changes it back.                                   *)
C6_Witness ==
    /\ Running
    /\ buffer.cursor_pos > 0
    /\ buffer.cursor_pos < Len(buffer.data)
    /\ buffer.data[buffer.cursor_pos] # buffer.data[buffer.cursor_pos + 1]
    /\ \E c \in Chars :
          /\ insert_ch(buffer, c).data # buffer.data
          /\ backspace(insert_ch(buffer, c)).data = buffer.data

----------------------------------------------------------------------------
(* Properties of the line index *)

(* The line index right after recalculate_lines() *)
Rebuilt == recalculate_lines(buffer).lines

(* The characters a span covers, as the renderer slices them:              *)
(* data.get(start..=end), nothing when the range is not within the data.   *)
Covered(d, l) ==
    IF l.start <= l.end + 1 /\ l.end + 1 <= Len(d)
    THEN SubSeq(d, l.start + 1, l.end + 1)
    ELSE <<>>

RECURSIVE ConcatCovered(_, _, _)
ConcatCovered(d, ls, j) ==
    IF j > Len(ls) THEN <<>> ELSE Covered(d, ls[j]) \o ConcatCovered(d, ls, j + 1)

(* C7: line-index round trip. For any data, the empty one and one ending   *)
(* in a newline included, after recalculate_lines the characters covered   *)
(* by the spans, taken in order, are the data, and every index of          *)
(* [0, len(data)) is covered by exactly one span.                          *)
C7_LineIndexRoundTrip ==
    /\ ConcatCovered(buffer.data, Rebuilt, 1) = buffer.data
    /\ \A k \in 0 .. Len(buffer.data) - 1 :
          Cardinality({j \in 1 .. Len(Rebuilt) : Contains(Rebuilt[j], k)}) = 1

(* The index of a text of three lines that ends in a newline has been      *)
(* rebuilt after an edit.                                                  *)
C7_Witness ==
    /\ Running
    /\ LinesCurrent(buffer)
    /\ buffer.cursor_pos > 0
    /\ Len(buffer.data) >= 3
    /\ buffer.data[Len(buffer.data)] = NL
    /\ Len(buffer.lines) = 3

NewlinesOf(d) == {i \in 0 .. Len(d) - 1 : d[i + 1] = NL}

(* The k-th newline of d, k = 1 for the first *)
NthNewline(d, k) ==
    CHOOSE n \in NewlinesOf(d) : Cardinality({m \in NewlinesOf(d) : m < n}) = k - 1

(* The line index as the specification describes it *)
ReferenceLines(d) ==
    LET n == Cardinality(NewlinesOf(d))
        start_of(k) == IF k = 1 THEN 0 ELSE NthNewline(d, k - 1) + 1
    IN [k \in 1 .. n + 1 |->
          IF k <= n THEN Line(start_of(k), NthNewline(d, k))
          ELSE Line(start_of(k), IF Len(d) = 0 THEN 0 ELSE Len(d) - 1)]

(* C8: recalculate_lines yields the reference line index: a span           *)
(* [previous start, i] for each newline at i, then a final span up to      *)
(* len(data) - 1, or the single span {0, 0} for empty data; there is       *)
(* always at least one span (newlines + 1), and "ab\ncd" gives {0,2},{3,4}.*)
C8_LinesAreReference ==
    /\ Rebuilt = ReferenceLines(buffer.data)
    /\ Len(Rebuilt) = Cardinality(NewlinesOf(buffer.data)) + 1
    /\ Len(Rebuilt) >= 1
    /\ buffer.data = <<>> => Rebuilt = <<Line(0, 0)>>
    /\ LinesOf(<<"a", "b", NL, "c", "d">>) = <<Line(0, 2), Line(3, 4)>>

(* The index of a text with a newline inside and none at the end has been  *)
(* rebuilt after an edit.                                                  *)
C8_Witness ==
    /\ Running
    /\ LinesCurrent(buffer)
    /\ buffer.cursor_pos > 0
    /\ Len(buffer.data) >= 3
    /\ buffer.data[Len(buffer.data)] # NL
    /\ Len(buffer.lines) = 2
    /\ buffer.lines[1].end = 1

(* C9: after every recalculate_lines the spans are contiguous and do not   *)
(* overlap: the first starts at 0, every span has start <= end, and each   *)
(* span's end + 1 is the next span's start.                                *)
C9_SpansContiguous ==
    /\ Rebuilt[1].start = 0
    /\ \A j \in 1 .. Len(Rebuilt) : Rebuilt[j].start <= Rebuilt[j].end
    /\ \A j \in 1 .. Len(Rebuilt) - 1 : Rebuilt[j].end + 1 = Rebuilt[j + 1].start

(* C10: delete() with cursor_pos == len(data) is a no-op and no panic;     *)
(* with cursor_pos < len(data) it removes the character at cursor_pos and  *)
(* leaves cursor_pos as it is.                                             *)
C10_DeleteAtEndIsNoOp ==
    (Running /\ CursorInData(buffer)) =>
        IF buffer.cursor_pos = Len(buffer.data)
        THEN delete(buffer) = buffer
        ELSE /\ delete(buffer).status = "ok"
             /\ delete(buffer).cursor_pos = buffer.cursor_pos
             /\ Len(delete(buffer).data) = Len(buffer.data) - 1
             /\ \A k \in 1 .. Len(buffer.data) - 1 :
                   delete(buffer).data[k] =
                       buffer.data[IF k <= buffer.cursor_pos THEN k ELSE k + 1]

----------------------------------------------------------------------------
(* Properties of the boundaries, the sticky column and the coordinates *)

(* C11: backspace() with cursor_pos == 0 is a guarded no-op (cursor_pos    *)
(* does not underflow, no panic, data unchanged); with cursor_pos > 0 it   *)
(* decrements cursor_pos and removes the character then at cursor_pos.     *)
C11_BackspaceAtStartIsNoOp ==
    (Running /\ CursorInData(buffer)) =>
        IF buffer.cursor_pos = 0
        THEN backspace(buffer) = buffer
        ELSE /\ backspace(buffer).status = "ok"
             /\ backspace(buffer).cursor_pos = buffer.cursor_pos - 1
             /\ backspace(buffer).data = RemoveAt(buffer.data, buffer.cursor_pos - 1)

(* C12: a vertical move past the first or the last line is a no-op:        *)
(* move_cursor_up(d) on a line of index < d and move_cursor_down(d) on a   *)
(* line of index >= lines.len() - d leave cursor_pos and the remembered    *)
(* column as they are and do not fail, from every legal cursor position.   *)
C12_VerticalMovePastEdgeIsNoOp ==
    (Running /\ LinesCurrent(buffer) /\ CursorInData(buffer)) =>
        \A d \in Deltas :
            /\ LineOfCursor(buffer) < d => move_cursor_up(buffer, d) = buffer
            /\ LineOfCursor(buffer) + d >= Len(buffer.lines) =>
                  move_cursor_down(buffer, d) = buffer

(* C14: every edit clears the remembered column: after insert_ch,          *)
(* backspace or delete, previous_offset is None.                           *)
C14_EditClearsSticky ==
    (Running /\ CursorInData(buffer)) =>
        /\ \A c \in Chars :
              insert_ch(buffer, c).status = "ok" =>
                  insert_ch(buffer, c).previous_offset = None
        /\ backspace(buffer).status = "ok" => backspace(buffer).previous_offset = None
        /\ delete(buffer).status = "ok" => delete(buffer).previous_offset = None

(* C15: a horizontal move with a delta out of range is truncated at the    *)
(* boundary: move_cursor_right(dx) with cursor_pos + dx > len(data) leaves *)
(* cursor_pos == len(data), move_cursor_left(dx) with dx > cursor_pos      *)
(* leaves cursor_pos == 0; a delta in range moves the cursor by dx.        *)
C15_HorizontalMoveTruncates ==
    (Running /\ CursorInData(buffer)) =>
        \A dx \in Deltas :
            /\ move_cursor_right(buffer, dx).cursor_pos =
                  IF buffer.cursor_pos + dx > Len(buffer.data)
                  THEN Len(buffer.data) ELSE buffer.cursor_pos + dx
            /\ move_cursor_left(buffer, dx).cursor_pos =
                  IF dx > buffer.cursor_pos THEN 0 ELSE buffer.cursor_pos - dx

(* The screen coordinates of the cursor as the specification gives them,   *)
(* from the line the cursor is on.                                         *)
ReferenceXY(b) ==
    LET l == LineOfCursor(b)
    IN <<b.cursor_pos - b.lines[l + 1].start - b.offset_x + b.x,
         l - b.offset_y + b.y>>

(* C17: for every legal cursor_pos, len(data) included, cursor_xy returns  *)
(* y = index of the cursor's line - offset_y + origin y and                *)
(* x = cursor_pos - line.start - offset_x + origin x; x decreases by       *)
(* exactly k when offset_x is increased by k.                              *)
C17_CursorXYIsReference ==
    (Running /\ LinesCurrent(buffer) /\ CursorInData(buffer)) =>
        /\ cursor_xy(buffer) = ReferenceXY(buffer)
        /\ \A k \in Deltas :
              cursor_xy([buffer EXCEPT !.offset_x = @ + k])[1] = cursor_xy(buffer)[1] - k

(* C18: every horizontal move clears the remembered column: after          *)
(* move_cursor_left(dx) or move_cursor_right(dx) previous_offset is None,  *)
(* also when the delta was out of range and cursor_pos did not change.     *)
C18_HorizontalMoveClearsSticky ==
    Running =>
        \A dx \in Deltas :
            /\ move_cursor_left(buffer, dx).previous_offset = None
            /\ move_cursor_right(buffer, dx).previous_offset = None

(* A vertical move has set the remembered column, and a move to the left   *)
(* by more than cursor_pos leaves the cursor where it is and clears it.    *)
C18_Witness ==
    /\ Running
    /\ buffer.previous_offset # None
    /\ \E dx \in Deltas :
          /\ dx > buffer.cursor_pos
          /\ move_cursor_left(buffer, dx).cursor_pos = buffer.cursor_pos
          /\ move_cursor_left(buffer, dx).previous_offset = None

(* The outcome the specification gives a vertical move from b to the line  *)
(* target: inside the line, at the desired column or, when that does not   *)
(* fit, at the last column with the desired column remembered.             *)
LandsAsSpecified(b, r, target) ==
    LET t == b.lines[target + 1]
        cur == b.lines[LineOfCursor(b) + 1]
        column == IF b.previous_offset # None THEN b.previous_offset[1]
                  ELSE b.cursor_pos - cur.start
        length == t.end - t.start + 1
    IN /\ r.status = "ok"
       /\ Contains(t, r.cursor_pos)
       /\ IF column >= length
          THEN /\ r.previous_offset = Some(column)
               /\ r.cursor_pos = t.start + length - 1
          ELSE /\ r.previous_offset = b.previous_offset
               /\ r.cursor_pos = t.start + column

(* C19: a vertical move that is not a boundary no-op lands inside the      *)
(* target line, for every target line, a last line after a trailing        *)
(* newline included: when the desired column does not fit, it is           *)
(* remembered and cursor_pos is the target's start + length - 1; when it   *)
(* fits, the remembered column is unaltered and cursor_pos is the target's *)
(* start + the desired column.                                             *)
C19_VerticalMoveLandsInTarget ==
    (Running /\ LinesCurrent(buffer) /\ CursorInData(buffer)) =>
        \A d \in Deltas :
            LET cur == LineOfCursor(buffer)
            IN /\ cur >= d =>
                     LandsAsSpecified(buffer, move_cursor_up(buffer, d), cur - d)
               /\ cur + d < Len(buffer.lines) =>
                     LandsAsSpecified(buffer, move_cursor_down(buffer, d), cur + d)

(* The smallest change of an offset that brings the coordinate c, relative *)
(* to the viewport, into [0, extent)                                       *)
SmallestAdjustment(offset, c, extent) ==
    IF c < 0 THEN offset - (-c)
    ELSE IF c >= extent THEN offset + (c - extent + 1)
    ELSE offset

(* C20: scroll() makes the smallest adjustment on each axis by itself: an  *)
(* offset is unchanged when the cursor's coordinate relative to the        *)
(* viewport is in [0, extent), decreases by d when it is negative by d,    *)
(* increases by d + 1 when it is extent + d; data, lines, cursor_pos and   *)
(* the remembered column are never changed.                                *)
C20_ScrollSmallestAdjustment ==
    (Running /\ LinesCurrent(buffer) /\ CursorInData(buffer)) =>
        LET s == scroll(buffer)
            rx == ReferenceXY(buffer)[1] - buffer.x
            ry == ReferenceXY(buffer)[2] - buffer.y
        IN /\ s.status = "ok"
           /\ s.offset_x = SmallestAdjustment(buffer.offset_x, rx, buffer.width)
           /\ s.offset_y = SmallestAdjustment(buffer.offset_y, ry, buffer.height)
           /\ s.data = buffer.data
           /\ s.lines = buffer.lines
           /\ s.cursor_pos = buffer.cursor_pos
           /\ s.previous_offset = buffer.previous_offset

----------------------------------------------------------------------------
(* Properties of scenario 3 and of save *)

(* C13: scenario 3. With data = "abc\nd", a current line index, no         *)
(* remembered column and the cursor at offset 4, moving up one line lands  *)
(* the cursor at offset 1 (the character "b") with no clamping and no      *)
(* remembered column set.                                                  *)
C13_Scenario3LandsOnB ==
    (/\ Running
     /\ buffer.data = Scenario3Text
     /\ buffer.cursor_pos = 4
     /\ buffer.previous_offset = None) =>
        /\ move_cursor_up(buffer, 1).status = "ok"
        /\ move_cursor_up(buffer, 1).cursor_pos = 1
        /\ move_cursor_up(buffer, 1).previous_offset = None

(* C13, amended: in scenario 3 the cursor at offset 4 is in column 0 of    *)
(* the line "d", and moving up one line lands it at offset 0 (the          *)
(* character "a", column 0 of the line "abc\n") with no clamping and no    *)
(* remembered column set.                                                  *)
C13_Scenario3LandsOnA ==
    (/\ Running
     /\ buffer.data = Scenario3Text
     /\ buffer.cursor_pos = 4
     /\ buffer.previous_offset = None) =>
        /\ buffer.lines = <<Line(0, 3), Line(4, 4)>>
        /\ move_cursor_up(buffer, 1).status = "ok"
        /\ move_cursor_up(buffer, 1).cursor_pos = 0
        /\ move_cursor_up(buffer, 1).data[1] = "a"
        /\ move_cursor_up(buffer, 1).previous_offset = None

(* Scenario 3 is set up: the cursor has been moved to offset 4 of          *)
(* "abc\nd", nothing is remembered, and the move up goes to the first line.*)
C13_Witness ==
    /\ Running
    /\ buffer.data = Scenario3Text
    /\ buffer.cursor_pos = 4
    /\ buffer.previous_offset = None
    /\ move_cursor_up(buffer, 1).cursor_pos < 4

(* A text file read back: the characters its UTF-8 bytes stand for *)
CharOfCode(c) == CHOOSE ch \in SaveFileChars : Code(ch) = c

RECURSIVE Utf8Decode(_)
Utf8Decode(bytes) ==
    IF bytes = <<>> THEN <<>>
    ELSE IF bytes[1] < 128
         THEN <<CharOfCode(bytes[1])>> \o Utf8Decode(Tail(bytes))
         ELSE <<CharOfCode((bytes[1] - 192) * 64 + (bytes[2] - 128))>>
                 \o Utf8Decode(Tail(Tail(bytes)))

(* C16: save() on a Buffer without a path does not touch the file system;  *)
(* with a path it writes the characters of data, as they are, as the whole *)
(* contents of the file; either way data, lines, cursor_pos and the scroll *)
(* offsets are left unchanged.                                             *)
C16_SaveWritesDataOnlyWithPath ==
    Running =>
        \A opens \in BOOLEAN, accepted \in 0 .. Len(Utf8(buffer.data)) :
           LET saved == save(buffer, storage, opens, accepted)
           IN /\ buffer.file_path = None => saved = <<buffer, storage>>
              /\ (buffer.file_path # None /\ saved[1].status = "ok") =>
                    /\ saved[2].writes = storage.writes + 1
                    /\ saved[2].contents # None
                    /\ Utf8Decode(saved[2].contents[1]) = buffer.data
              /\ [saved[1] EXCEPT !.status = buffer.status] = buffer

(* A loaded file has been edited and saved to its path: the file holds a   *)
(* text of two lines that differs from what was loaded.                    *)
C16_Witness ==
    /\ Running
    /\ buffer.file_path # None
    /\ storage.writes >= 1
    /\ Len(buffer.data) > MaxFileLen
    /\ \E i \in 1 .. Len(buffer.data) : buffer.data[i] = NL
    /\ Utf8Decode(storage.contents[1]) = buffer.data

----------------------------------------------------------------------------
(* Properties implied by the design *)

(* The smaller of two numbers *)
Min(a, b) == IF a < b THEN a ELSE b

(* C23: sticky column consistency. In every state reached from a fresh     *)
(* Buffer by cursor moves only, if previous_offset is Some(s) then the     *)
(* cursor's column, cursor_pos - lines[current line].start, is             *)
(* min(s, length of the current line - 1).                                 *)
C23_StickyMatchesColumn ==
    (Running /\ buffer.previous_offset # None) =>
        LET line == buffer.lines[LineOfCursor(buffer) + 1]
        IN buffer.cursor_pos - line.start =
              Min(buffer.previous_offset[1], line.end - line.start + 1 - 1)

(* C24: scroll idempotence. In every reachable state, the cursor at        *)
(* len(data) on a line longer than the viewport is wide included, a second *)
(* scroll() right after the first leaves offset_x and offset_y as the      *)
(* first call left them.                                                   *)
C24_ScrollIdempotent ==
    (/\ Running
     /\ LinesCurrent(buffer)
     /\ CursorInData(buffer)
     /\ scroll(buffer).status = "ok") =>
        /\ scroll(scroll(buffer)).status = "ok"
        /\ scroll(scroll(buffer)).offset_x = scroll(buffer).offset_x
        /\ scroll(scroll(buffer)).offset_y = scroll(buffer).offset_y

----------------------------------------------------------------------------
(* Properties of the event loop of main.rs *)

MainNewlines(buf) == {i \in 0 .. Len(buf) - 1 : buf[i + 1] = NL}

(* The line index of main.rs for a buffer, from the positions of its       *)
(* newlines: a span up to each newline and a last span up to the length.   *)
MainReferenceLines(buf) ==
    LET n == Cardinality(MainNewlines(buf))
        start_of(k) == IF k = 1 THEN 0 ELSE NthNewline(buf, k - 1) + 1
    IN [k \in 1 .. n + 1 |->
          <<start_of(k), IF k <= n THEN NthNewline(buf, k) ELSE Len(buf)>>]

(* C21: in the main.rs event loop, whenever the next key event is read,    *)
(* and so whenever the Up or Down handler looks at lines, lines is the     *)
(* line index recomputed from the current buffer: every mutation is        *)
(* followed by a full recompute before the next input.                     *)
C21_LinesCurrentAtRead ==
    MainRunning =>
        /\ main.lines = MainReferenceLines(main.buffer)
        /\ main.lines = main_recalculate_lines(main.buffer, <<>>)

(* Keys have been typed into the loaded text: the buffer is longer than    *)
(* any loaded file, has a newline before its last character, and its       *)
(* index has more than one span.                                           *)
C21_Witness ==
    /\ MainRunning
    /\ Len(main.buffer) > MaxFileLen
    /\ \E i \in 1 .. Len(main.buffer) - 1 : main.buffer[i] = NL
    /\ Len(main.lines) >= 2
    /\ main.lines[Len(main.lines)][1] > 0

MainCursorInRange(m) == 0 <= m.cursor_pos /\ m.cursor_pos <= Len(m.buffer)

(* No newline before the cursor; no newline at or after the cursor *)
OnFirstLine(m) == \A i \in 1 .. m.cursor_pos : m.buffer[i] # NL
OnLastLine(m) == \A i \in m.cursor_pos + 1 .. Len(m.buffer) : m.buffer[i] # NL

(* The handlers of the keys that edit or move, applied to m *)
EditAndMoveKeys(m) ==
    {key_char(m, c) : c \in TypedChars} \cup {key_shift_char(m, c) : c \in TypedChars}
        \cup {key_enter(m), key_backspace(m), key_delete(m),
              key_left(m), key_right(m), key_up(m), key_down(m)}

(* C22: in the main.rs event loop, over any sequence of key events         *)
(* (character, Enter, Backspace, Delete, Left, Right, Up, Down, save)      *)
(* cursor_pos stays within [0, buffer.len()] and no edit or move handler   *)
(* panics or underflows; Backspace at 0, Delete at buffer.len(), Left at   *)
(* 0, Right at the end, Up on the first line and Down on the last line     *)
(* leave buffer and cursor_pos unchanged.                                  *)
C22_MainBoundariesAreNoOps ==
    MainRunning =>
        /\ MainCursorInRange(main)
        /\ \A r \in EditAndMoveKeys(main) : r.status = "ok" /\ MainCursorInRange(r)
        /\ \A opens \in BOOLEAN, accepted \in 0 .. Len(main.buffer) :
              LET saved == key_ctrl_s(main, storage, opens, accepted)[1]
              IN saved.buffer = main.buffer /\ saved.cursor_pos = main.cursor_pos
        /\ main.cursor_pos = 0 => key_backspace(main) = main /\ key_left(main) = main
        /\ main.cursor_pos = Len(main.buffer) =>
              key_delete(main) = main /\ key_right(main) = main
        /\ OnFirstLine(main) => key_up(main) = main
        /\ OnLastLine(main) => key_down(main) = main

(* The cursor has been brought back to offset 0 of a text of two lines     *)
(* that keys have made longer than any loaded file: Backspace, Left and Up *)
(* are at their boundary, Down is not.                                     *)
C22_Witness ==
    /\ MainRunning
    /\ Len(main.buffer) > MaxFileLen
    /\ main.cursor_pos = 0
    /\ ~OnLastLine(main)
    /\ key_backspace(main) = main
    /\ key_up(main) = main
    /\ key_down(main).cursor_pos > 0

====
